---- MODULE Spec2Model ----
(***************************************************************************)
(* A model of ttcBusTracker.py (first definition block, lines 1-271):      *)
(* GMapsRoute, NoRouteError, BusStop, BusRoute.                            *)
(*                                                                         *)
(* Python values: a str that the code only compares is a TLA+ string; a    *)
(* str that the code indexes or converts (a direction title, lat, lon, the *)
(* file name) is a tuple of one-character strings.  An XML element is a    *)
(* record [tag, attrib, text, children] as xml.etree.ElementTree gives it; *)
(* attrib is a function whose DOMAIN is the set of attributes present.     *)
(***************************************************************************)
EXTENDS Integers, Sequences, FiniteSets, TLC

(***************************************************************************)
(* Bounds of the model.                                                    *)
(***************************************************************************)
\* Most XML elements below the root <body> of a route feed.
MaxNodes == 5

\* The callers that may run at the same time.
Procs == {1, 2}

\* Python's None where a str is expected (ElementTree's get() default).
None == "<None>"

NoAttrib == [k \in {} |-> ""]

Element(tag, attrib, text, children) ==
    [tag |-> tag, attrib |-> attrib, text |-> text, children |-> children]

(***************************************************************************)
(* xml.etree.ElementTree operations used by the code.                      *)
(***************************************************************************)
\* Element.get(key): the attribute, or None when it is absent.
Get(e, key) == IF key \in DOMAIN e.attrib THEN e.attrib[key] ELSE None

\* Element.findall(tag): the direct children with that tag, document order.
FindAll(e, tag) == SelectSeq(e.children, LAMBDA c : c.tag = tag)

(***************************************************************************)
(* The documents the route feed may answer with.                           *)
(***************************************************************************)
North == <<"N", "o", "r", "t", "h">>
South == <<"S", "o", "u", "t", "h">>
East == <<"E", "a", "s", "t">>
West == <<"W", "e", "s", "t">>
Unknown == <<"U", "n", "k", "n", "o", "w", "n">>

\* <stop tag=.. stopId=.. title=.. lat=.. lon=../> children of a route; the
\* second has no stopId.
StopElements ==
    { Element("stop", [tag |-> "1001", stopId |-> "14001", title |-> "Main St",
                       lat |-> <<"4", "3">>, lon |-> <<"-", "7", "9">>], "", <<>>),
      Element("stop", [tag |-> "1002", title |-> "Dawes Rd",
                       lat |-> <<"4", "4">>, lon |-> <<"-", "8", "0">>], "", <<>>) }

\* <stop tag=../> references nested in a direction.
StopRefs == { Element("stop", [tag |-> t], "", <<>>) : t \in {"1001", "1002"} }

\* The attributes of a direction: a title, or none.
DirectionAttribs ==
    { [title |-> t] : t \in {North, South, East, West, Unknown} } \cup {NoAttrib}

\* The attributes of a top-level <route>.
RouteAttribs == [tag |-> "23", title |-> "23-Dawes"]

Route(children) == Element("route", RouteAttribs, "", children)

\* <Error shouldRetry="false"> is what the feed answers for an unknown route:
\* a first top-level child without a title.
ErrorElement == Element("Error", [shouldRetry |-> "false"], "", <<>>)

Body(children) == Element("body", NoAttrib, "", children)

\* The direction elements of exactly s elements (itself and s - 1 references).
DirectionsOfSize(s) ==
    { Element("direction", a, "", refs) :
        a \in DirectionAttribs, refs \in [1..(s - 1) -> StopRefs] }

\* The sequences of direction elements of exactly m elements in all.
DirectionSeqs[m \in Nat] ==
    IF m = 0 THEN {<<>>}
    ELSE UNION { { <<d>> \o rest : d \in DirectionsOfSize(s), rest \in DirectionSeqs[m - s] } :
                 s \in 1..m }

\* The children of a route, m elements in all: k stops, then its directions
\* (the order the feed lists them in).
RouteChildren(m, k) ==
    { ss \o ds : ss \in [1..k -> StopElements], ds \in DirectionSeqs[m - k] }

\* The sequences of top-level elements of exactly n elements in all.
TopSeqs[n \in Nat] ==
    IF n = 0 THEN {<<>>}
    ELSE { <<ErrorElement>> \o rest : rest \in TopSeqs[n - 1] }
         \cup UNION { UNION { { <<Route(cs)>> \o rest :
                                  cs \in RouteChildren(s - 1, k), rest \in TopSeqs[n - s] } :
                              k \in 0..(s - 1) } :
                      s \in 1..n }

(***************************************************************************)
(* Python built-ins used by the code.                                      *)
(***************************************************************************)
Digits == <<"0", "1", "2", "3", "4", "5", "6", "7", "8", "9">>

RECURSIVE Str(_)
\* str(n) of a non-negative int: its decimal digits.
Str(n) == IF n < 10 THEN <<Digits[n + 1]>> ELSE Str(n \div 10) \o <<Digits[(n % 10) + 1]>>

DigitValue(c) == (CHOOSE i \in 1..10 : Digits[i] = c) - 1

RECURSIVE ParseInt(_)
\* The value of a non-empty tuple of digits.
ParseInt(s) == IF Len(s) = 1 THEN DigitValue(s[1])
               ELSE 10 * ParseInt(SubSeq(s, 1, Len(s) - 1)) + DigitValue(s[Len(s)])

IsDigits(s) == Len(s) >= 1 /\ \A i \in 1..Len(s) : \E d \in 1..10 : Digits[d] = s[i]

\* Whether float(s) accepts the str s (the literals of the model are signed
\* whole numbers; float() raises ValueError on the others).
IsFloatLiteral(s) == IF s # <<>> /\ s[1] = "-" THEN IsDigits(Tail(s)) ELSE IsDigits(s)

\* float(s) of a literal it accepts.
Float(s) == IF s[1] = "-" THEN 0 - ParseInt(Tail(s)) ELSE ParseInt(s)

(***************************************************************************)
(* BusStop.                                                                *)
(***************************************************************************)
\* BusStop(route, stop_id, intersection, coordinates, tag); oid is the
\* identity of the new object (two BusStops with equal fields are still two
\* objects).
BusStop(oid, route, stop_id, intersection, coordinates, tag) ==
    [oid |-> oid, tag |-> tag, id |-> stop_id, intersection |-> intersection,
     coordinates |-> coordinates, route |-> route]

(***************************************************************************)
(* The state.                                                              *)
(***************************************************************************)
VARIABLES
    files,      \* the working directory: file name -> <<>> (empty) or <<document>>
    pc,         \* where each caller is
    route_no,   \* BusRoute.__init__'s argument
    self,       \* the BusRoute under construction: attribute name -> value
    data,       \* data: the bytes read from the route feed
    doc,        \* _doc: the parsed document, <<>> before it is parsed
    ri,         \* position of `for route in _doc.findall('route')`
    si,         \* position of `for stop in route.findall('stop')`
    di,         \* position of `for direction in route.findall("direction")`
    ti,         \* position of `for tag in direction.findall("stop")`
    bi,         \* position of `for bus_stop in self.bus_stops`
    stop,       \* the local `stop`: <<>> while unbound, else <<element>>
    orientation,\* the local _orientation
    xml,        \* GMapsRoute's _xml: the response read from the service
    time,       \* GMapsRoute's local time
    err,        \* the exception that ended the call
    ret         \* the value returned by the call: <<>> or <<value>>

vars == <<files, pc, route_no, self, data, doc, ri, si, di, ti, bi, stop,
          orientation, xml, time, err, ret>>

loopVars == <<ri, si, di, ti, bi, stop, orientation>>
gmapsVars == <<xml, time>>

NoError == [type |-> "none", in |-> "none"]
Error(type, in) == [type |-> type, in |-> in]

NoObject == [k \in {} |-> 0]

\* self.<name> = value
SetAttr(obj, name, value) ==
    [k \in DOMAIN obj \cup {name} |-> IF k = name THEN value ELSE obj[k]]

HasAttr(obj, name) == name \in DOMAIN obj

\* FileName with the route number left out of the name: one shared file.
FileNameShared(number) == <<"r", "t", ".", "x", "m", "l">>

\* 'rt' + str(self.number) + '.xml'
FileName(number) == <<"r", "t">> \o Str(number) \o <<".", "x", "m", "l">>

\* GMapsRoute's file_name.
MapFile == <<"m", "a", "p", ".", "x", "m", "l">>

\* The route numbers callers ask for.
RouteNumbers == {5, 23}

Paths == { FileName(n) : n \in RouteNumbers } \cup {MapFile}

\* The caller p raises e.
Raise(p, e) ==
    /\ pc' = [pc EXCEPT ![p] = "raised"]
    /\ err' = [err EXCEPT ![p] = e]

Goto(p, label) ==
    /\ pc' = [pc EXCEPT ![p] = label]
    /\ err' = err

(***************************************************************************)
(* BusRoute.__init__                                                       *)
(***************************************************************************)
\* A caller starts BusRoute(n): self.number = route_no; self.bus_stops = [].
BusRouteInit(p, numbers) ==
    /\ pc[p] = "idle"
    /\ \E n \in numbers :
         /\ route_no' = [route_no EXCEPT ![p] = n]
         /\ self' = [self EXCEPT ![p] = [number |-> n, bus_stops |-> <<>>]]
    /\ Goto(p, "urlopen")
    /\ UNCHANGED <<files, data, doc, loopVars, gmapsVars, ret>>

\* The feed answers the caller p with the document d.
Respond(p, d) ==
    /\ data' = [data EXCEPT ![p] = <<d>>]
    /\ Goto(p, "open")

\* self._xml_file = urlopen(url); data = self._xml_file.read(): the feed
\* answers with a document of at most n elements below its root (an empty
\* body, or a first element followed by the others), or the request fails.
UrlOpen(p, n) ==
    /\ pc[p] = "urlopen"
    /\ \/ Respond(p, Body(<<>>))
       \/ \E j \in 1..n :
            \E rest \in TopSeqs[j - 1] : Respond(p, Body(<<ErrorElement>> \o rest))
       \/ \E j \in 1..n, s \in 1..n, k \in 0..n :
            /\ s <= j
            /\ k <= s - 1
            /\ \E cs \in RouteChildren(s - 1, k), rest \in TopSeqs[j - s] :
                 Respond(p, Body(<<Route(cs)>> \o rest))
       \/ /\ Raise(p, Error("URLError", "__init__"))
          /\ data' = data
    /\ UNCHANGED <<files, route_no, self, doc, loopVars, gmapsVars, ret>>

\* _file = open(_file_name, 'wb'): the file is created or truncated.
OpenFile(p) ==
    /\ pc[p] = "open"
    /\ files' = [files EXCEPT ![FileName(self[p].number)] = <<>>]
    /\ Goto(p, "write")
    /\ UNCHANGED <<route_no, self, data, doc, loopVars, gmapsVars, ret>>

\* _file.write(data); _file.close()
WriteFile(p) ==
    /\ pc[p] = "write"
    /\ files' = [files EXCEPT ![FileName(self[p].number)] = data[p]]
    /\ Goto(p, "parse")
    /\ UNCHANGED <<route_no, self, data, doc, loopVars, gmapsVars, ret>>

\* _doc = parse(_file_name): an empty file is no XML document.
Parse(p) ==
    /\ pc[p] = "parse"
    /\ IF files[FileName(self[p].number)] = <<>>
       THEN /\ Raise(p, Error("ParseError", "__init__"))
            /\ doc' = doc
       ELSE /\ doc' = [doc EXCEPT ![p] = files[FileName(self[p].number)]]
            /\ Goto(p, "name")
    /\ UNCHANGED <<files, route_no, self, data, loopVars, gmapsVars, ret>>

\* try: self.name = _doc.getroot()[0].attrib['title']
\* except KeyError: error = (... + str(route_name)); raise NoRouteError(error)
\* route_name is no name of the function or the module: evaluating it raises
\* NameError before NoRouteError is built.
GetName(p) ==
    /\ pc[p] = "name"
    /\ LET root == doc[p][1] IN
       IF root.children = <<>>
       THEN /\ Raise(p, Error("IndexError", "__init__"))
            /\ UNCHANGED <<self, ri>>
       ELSE IF "title" \notin DOMAIN root.children[1].attrib
       THEN /\ Raise(p, Error("NameError", "__init__"))
            /\ UNCHANGED <<self, ri>>
       ELSE /\ self' = [self EXCEPT ![p] = SetAttr(@, "name", root.children[1].attrib["title"])]
            /\ ri' = [ri EXCEPT ![p] = 1]
            /\ Goto(p, "routes")
    /\ UNCHANGED <<files, route_no, data, doc, si, di, ti, bi, stop, orientation,
                   gmapsVars, ret>>

\* Branch with an unrecognised letter sent to north_stops instead of
\* west_stops.
BranchUnknownNorth(o) ==
    IF o = "E" THEN "east_stops"
    ELSE IF o = "S" THEN "south_stops"
    ELSE IF o = "W" THEN "west_stops"
    ELSE "north_stops"

\* The if/elif chain on _orientation: the attribute its branch fills.
Branch(o) ==
    IF o = "N" THEN "north_stops"
    ELSE IF o = "E" THEN "east_stops"
    ELSE IF o = "S" THEN "south_stops"
    ELSE "west_stops"

\* ListAppend putting the item first: list.insert(0, item).
ListInsertFirst(list, item) == <<item>> \o list

\* list.append(item)
ListAppend(list, item) == Append(list, item)

\* InitList that keeps a list the attribute already holds.
InitListOnce(obj, name) == IF HasAttr(obj, name) THEN obj ELSE SetAttr(obj, name, <<>>)

\* self.<name> = []
InitList(obj, name) == SetAttr(obj, name, <<>>)

\* BusStopAt handing out a copy of the element: a new object, equal fields.
BusStopCopyAt(list, i) == [list[i] EXCEPT !.oid = Len(list) + i]

\* The object `for bus_stop in list` binds at its i-th iteration: the
\* list's own element, no copy.
BusStopAt(list, i) == list[i]

\* The BusStop built from a stop element whose lat and lon float() accepts.
NewBusStop(obj, e) ==
    BusStop(Len(obj.bus_stops) + 1, obj.name, Get(e, "stopId"), Get(e, "title"),
            <<Float(e.attrib["lat"]), Float(e.attrib["lon"])>>, Get(e, "tag"))

\* The exception float(stop.get(key)) raises, "none" if it raises none.
FloatError(e, key) ==
    IF key \notin DOMAIN e.attrib THEN "TypeError"
    ELSE IF ~IsFloatLiteral(e.attrib[key]) THEN "ValueError"
    ELSE "none"

\* The routes, and the route, stops, directions and references a caller's
\* loops are at.
Routes(p) == FindAll(doc[p][1], "route")
CurRoute(p) == Routes(p)[ri[p]]
CurDirection(p) == FindAll(CurRoute(p), "direction")[di[p]]

\* for route in _doc.findall('route'): the next route, or the end of __init__.
NextRoute(p) ==
    /\ pc[p] = "routes"
    /\ IF ri[p] <= Len(Routes(p))
       THEN /\ si' = [si EXCEPT ![p] = 1]
            /\ ri' = ri
            /\ Goto(p, "stops")
       ELSE /\ ri' = [ri EXCEPT ![p] = 0]
            /\ si' = si
            /\ Goto(p, "done")
    /\ UNCHANGED <<files, route_no, self, data, doc, di, ti, bi, stop, orientation,
                   gmapsVars, ret>>

\* for stop in route.findall('stop'): self.bus_stops.append(BusStop(...))
NextStop(p) ==
    /\ pc[p] = "stops"
    /\ LET stops == FindAll(CurRoute(p), "stop") IN
       IF si[p] <= Len(stops)
       THEN LET e == stops[si[p]] IN
            /\ stop' = [stop EXCEPT ![p] = <<e>>]
            /\ IF FloatError(e, "lat") # "none"
               THEN /\ Raise(p, Error(FloatError(e, "lat"), "__init__"))
                    /\ UNCHANGED <<self, si>>
               ELSE IF FloatError(e, "lon") # "none"
               THEN /\ Raise(p, Error(FloatError(e, "lon"), "__init__"))
                    /\ UNCHANGED <<self, si>>
               ELSE /\ self' = [self EXCEPT ![p].bus_stops = ListAppend(@, NewBusStop(self[p], e))]
                    /\ si' = [si EXCEPT ![p] = @ + 1]
                    /\ Goto(p, "stops")
            /\ di' = di
       ELSE /\ si' = [si EXCEPT ![p] = 0]
            /\ di' = [di EXCEPT ![p] = 1]
            /\ Goto(p, "directions")
            /\ UNCHANGED <<self, stop>>
    /\ UNCHANGED <<files, route_no, data, doc, ri, ti, bi, orientation, gmapsVars, ret>>

\* for direction in route.findall("direction"): title = direction.get('title');
\* _orientation = title[0]; self.<heading>_stops = []
NextDirection(p) ==
    /\ pc[p] = "directions"
    /\ LET directions == FindAll(CurRoute(p), "direction") IN
       IF di[p] <= Len(directions)
       THEN LET direction == directions[di[p]] IN
            IF "title" \notin DOMAIN direction.attrib
            THEN /\ Raise(p, Error("TypeError", "__init__"))
                 /\ UNCHANGED <<self, orientation, ri, di, ti>>
            ELSE IF direction.attrib["title"] = <<>>
            THEN /\ Raise(p, Error("IndexError", "__init__"))
                 /\ UNCHANGED <<self, orientation, ri, di, ti>>
            ELSE LET o == direction.attrib["title"][1] IN
                 /\ orientation' = [orientation EXCEPT ![p] = o]
                 /\ self' = [self EXCEPT ![p] = InitList(@, Branch(o))]
                 /\ ti' = [ti EXCEPT ![p] = 1]
                 /\ Goto(p, "tags")
                 /\ UNCHANGED <<ri, di>>
       ELSE /\ di' = [di EXCEPT ![p] = 0]
            /\ ri' = [ri EXCEPT ![p] = @ + 1]
            /\ Goto(p, "routes")
            /\ UNCHANGED <<self, orientation, ti>>
    /\ UNCHANGED <<files, route_no, data, doc, si, bi, stop, gmapsVars, ret>>

\* for tag in direction.findall("stop"): the next reference of the direction.
NextTag(p) ==
    /\ pc[p] = "tags"
    /\ IF ti[p] <= Len(FindAll(CurDirection(p), "stop"))
       THEN /\ bi' = [bi EXCEPT ![p] = 1]
            /\ Goto(p, "bus_stops")
            /\ UNCHANGED <<ti, di>>
       ELSE /\ ti' = [ti EXCEPT ![p] = 0]
            /\ di' = [di EXCEPT ![p] = @ + 1]
            /\ Goto(p, "directions")
            /\ bi' = bi
    /\ UNCHANGED <<files, route_no, self, data, doc, ri, si, stop, orientation,
                   gmapsVars, ret>>

\* for bus_stop in self.bus_stops:
\*     if stop.get('tag') == bus_stop._tag: self.<heading>_stops.append(bus_stop)
\* The test reads `stop`, the variable of the loop over the route's stops,
\* not `tag`, the variable of the loop over the direction's references.
NextBusStop(p) ==
    /\ pc[p] = "bus_stops"
    /\ IF bi[p] <= Len(self[p].bus_stops)
       THEN LET bus_stop == BusStopAt(self[p].bus_stops, bi[p]) IN
            IF stop[p] = <<>>
            THEN /\ Raise(p, Error("NameError", "__init__"))
                 /\ UNCHANGED <<self, bi, ti>>
            ELSE /\ self' = IF Get(stop[p][1], "tag") = bus_stop.tag
                            THEN [self EXCEPT ![p][Branch(orientation[p])] =
                                      ListAppend(@, bus_stop)]
                            ELSE self
                 /\ bi' = [bi EXCEPT ![p] = @ + 1]
                 /\ Goto(p, "bus_stops")
                 /\ ti' = ti
       ELSE /\ bi' = [bi EXCEPT ![p] = 0]
            /\ ti' = [ti EXCEPT ![p] = @ + 1]
            /\ Goto(p, "tags")
            /\ self' = self
    /\ UNCHANGED <<files, route_no, data, doc, ri, si, di, stop, orientation,
                   gmapsVars, ret>>

(***************************************************************************)
(* BusRoute.bus_stop_coordinates                                           *)
(***************************************************************************)
\* return [stop.coordinates for stop in self._bus_stops]
BusStopCoordinates(p) ==
    /\ pc[p] = "done"
    /\ IF HasAttr(self[p], "_bus_stops")
       THEN /\ ret' = [ret EXCEPT ![p] =
                         <<[i \in 1..Len(self[p]["_bus_stops"]) |->
                              self[p]["_bus_stops"][i].coordinates]>>]
            /\ Goto(p, "returned")
       ELSE /\ Raise(p, Error("AttributeError", "bus_stop_coordinates"))
            /\ ret' = ret
    /\ UNCHANGED <<files, route_no, self, data, doc, loopVars, gmapsVars>>

(***************************************************************************)
(* GMapsRoute                                                              *)
(***************************************************************************)
Text(tag, text) == Element(tag, NoAttrib, text, <<>>)

\* A Distance Matrix answer: row > element > (status, duration, distance),
\* duration and distance each (value, text).
MatrixResponse(duration, distance) ==
    Element("DistanceMatrixResponse", NoAttrib, "",
        << Text("status", "OK"),
           Text("origin_address", "Toronto"),
           Text("destination_address", "Scarborough"),
           Element("row", NoAttrib, "",
               << Element("element", NoAttrib, "",
                      << Text("status", "OK"),
                         Element("duration", NoAttrib, "",
                             << Text("value", duration[1]), Text("text", duration[2]) >>),
                         Element("distance", NoAttrib, "",
                             << Text("value", distance[1]), Text("text", distance[2]) >>) >>) >>) >>)

\* The answer to a request the service refuses (the default key): no row.
DeniedResponse ==
    Element("DistanceMatrixResponse", NoAttrib, "",
        << Text("status", "REQUEST_DENIED"), Text("error_message", "The provided API key is invalid.") >>)

\* The answers of the service: they vary with the time of the request.
Responses ==
    { MatrixResponse(<<"720", "12 mins">>, <<"3400", "3.4 km">>),
      MatrixResponse(<<"900", "15 mins">>, <<"4100", "4.1 km">>),
      DeniedResponse }

\* parse(file_name).find('row')[0][i][1].text on the document `root`:
\* [ok |-> TRUE, text |-> ..], or the exception the expression raises.
RowText(root, i) ==
    LET rows == FindAll(root, "row") IN
    IF rows = <<>> THEN [ok |-> FALSE, type |-> "TypeError"]
    ELSE IF Len(rows[1].children) < 1 THEN [ok |-> FALSE, type |-> "IndexError"]
    ELSE LET element == rows[1].children[1] IN
         IF Len(element.children) < i + 1 THEN [ok |-> FALSE, type |-> "IndexError"]
         ELSE LET field == element.children[i + 1] IN
              IF Len(field.children) < 2 THEN [ok |-> FALSE, type |-> "IndexError"]
              ELSE [ok |-> TRUE, text |-> field.children[2].text]

\* The pair GMapsRoute returns from its locals: return(distance, time).
ReturnValue(distance, duration) == <<distance, duration>>

\* A caller starts GMapsRoute(point_A, point_B): _xml = urlopen(url); the
\* service answers, or the request fails.
GMapsUrlOpen(p) ==
    /\ pc[p] = "idle"
    /\ \/ \E r \in Responses :
            /\ xml' = [xml EXCEPT ![p] = <<r>>]
            /\ Goto(p, "map_open")
       \/ /\ Raise(p, Error("URLError", "GMapsRoute"))
          /\ xml' = xml
    /\ UNCHANGED <<files, route_no, self, data, doc, loopVars, time, ret>>

\* file_name = 'map.xml'; _file = open(file_name, 'wb')
GMapsOpenFile(p) ==
    /\ pc[p] = "map_open"
    /\ files' = [files EXCEPT ![MapFile] = <<>>]
    /\ Goto(p, "map_write")
    /\ UNCHANGED <<route_no, self, data, doc, loopVars, gmapsVars, ret>>

\* _file.write(_xml.read()); _file.close()
GMapsWriteFile(p) ==
    /\ pc[p] = "map_write"
    /\ files' = [files EXCEPT ![MapFile] = xml[p]]
    /\ Goto(p, "map_time")
    /\ UNCHANGED <<route_no, self, data, doc, loopVars, gmapsVars, ret>>

\* time = parse(file_name).find('row')[0][1][1].text
GMapsParseTime(p) ==
    /\ pc[p] = "map_time"
    /\ IF files[MapFile] = <<>>
       THEN /\ Raise(p, Error("ParseError", "GMapsRoute"))
            /\ time' = time
       ELSE LET t == RowText(files[MapFile][1], 1) IN
            IF t.ok
            THEN /\ time' = [time EXCEPT ![p] = t.text]
                 /\ Goto(p, "map_distance")
            ELSE /\ Raise(p, Error(t.type, "GMapsRoute"))
                 /\ time' = time
    /\ UNCHANGED <<files, route_no, self, data, doc, loopVars, xml, ret>>

\* distance = parse(file_name).find('row')[0][2][1].text; return(distance, time)
GMapsParseDistance(p) ==
    /\ pc[p] = "map_distance"
    /\ IF files[MapFile] = <<>>
       THEN /\ Raise(p, Error("ParseError", "GMapsRoute"))
            /\ ret' = ret
       ELSE LET d == RowText(files[MapFile][1], 2) IN
            IF d.ok
            THEN /\ ret' = [ret EXCEPT ![p] = <<ReturnValue(d.text, time[p])>>]
                 /\ Goto(p, "returned")
            ELSE /\ Raise(p, Error(d.type, "GMapsRoute"))
                 /\ ret' = ret
    /\ UNCHANGED <<files, route_no, self, data, doc, loopVars, gmapsVars>>

(***************************************************************************)
(* Specifications.                                                         *)
(***************************************************************************)
Init ==
    /\ files = [f \in Paths |-> <<>>]
    /\ pc = [p \in Procs |-> "idle"]
    /\ route_no = [p \in Procs |-> 0]
    /\ self = [p \in Procs |-> NoObject]
    /\ data = [p \in Procs |-> <<>>]
    /\ doc = [p \in Procs |-> <<>>]
    /\ ri = [p \in Procs |-> 0]
    /\ si = [p \in Procs |-> 0]
    /\ di = [p \in Procs |-> 0]
    /\ ti = [p \in Procs |-> 0]
    /\ bi = [p \in Procs |-> 0]
    /\ stop = [p \in Procs |-> <<>>]
    /\ orientation = [p \in Procs |-> ""]
    /\ xml = [p \in Procs |-> <<>>]
    /\ time = [p \in Procs |-> ""]
    /\ err = [p \in Procs |-> NoError]
    /\ ret = [p \in Procs |-> <<>>]

\* One caller constructs BusRoute(23) and asks for its coordinates.
Next ==
    \/ BusRouteInit(1, {23})
    \/ UrlOpen(1, MaxNodes)
    \/ OpenFile(1)
    \/ WriteFile(1)
    \/ Parse(1)
    \/ GetName(1)
    \/ NextRoute(1)
    \/ NextStop(1)
    \/ NextDirection(1)
    \/ NextTag(1)
    \/ NextBusStop(1)
    \/ BusStopCoordinates(1)

Spec == Init /\ [][Next]_vars

\* The documents the feed answers with when several callers run: the feed of
\* a route with two stops and a north direction, the feed of a route with one
\* stop and an unrecognised direction, and the answer for an unknown route.
SampleFeeds ==
    { Body(<< Route(<< Element("stop", [tag |-> "1001", stopId |-> "14001",
                                        title |-> "Main St", lat |-> <<"4", "3">>,
                                        lon |-> <<"-", "7", "9">>], "", <<>>),
                       Element("stop", [tag |-> "1002", title |-> "Dawes Rd",
                                        lat |-> <<"4", "4">>,
                                        lon |-> <<"-", "8", "0">>], "", <<>>),
                       Element("direction", [title |-> North], "",
                               << Element("stop", [tag |-> "1001"], "", <<>>) >>) >>) >>),
      Body(<< Route(<< Element("stop", [tag |-> "1002", title |-> "Dawes Rd",
                                        lat |-> <<"4", "4">>,
                                        lon |-> <<"-", "8", "0">>], "", <<>>),
                       Element("direction", [title |-> Unknown], "", <<>>) >>) >>),
      Body(<< ErrorElement >>) }

\* urlopen(url) and read() when several callers run.
UrlOpenSample(p) ==
    /\ pc[p] = "urlopen"
    /\ \/ \E d \in SampleFeeds : Respond(p, d)
       \/ /\ Raise(p, Error("URLError", "__init__"))
          /\ data' = data
    /\ UNCHANGED <<files, route_no, self, doc, loopVars, gmapsVars, ret>>

\* Two callers, each constructing a BusRoute or calling GMapsRoute, their
\* steps interleaved in any order.
NextCallers ==
    \E p \in Procs :
        \/ BusRouteInit(p, RouteNumbers)
        \/ UrlOpenSample(p)
        \/ OpenFile(p)
        \/ WriteFile(p)
        \/ Parse(p)
        \/ GetName(p)
        \/ NextRoute(p)
        \/ NextStop(p)
        \/ NextDirection(p)
        \/ NextTag(p)
        \/ NextBusStop(p)
        \/ GMapsUrlOpen(p)
        \/ GMapsOpenFile(p)
        \/ GMapsWriteFile(p)
        \/ GMapsParseTime(p)
        \/ GMapsParseDistance(p)

SpecCallers == Init /\ [][NextCallers]_vars

(***************************************************************************)
(* What the claims speak of.                                               *)
(***************************************************************************)
HeadingAttrs == {"north_stops", "south_stops", "east_stops", "west_stops"}

\* The caller p has a BusRoute whose construction ended without raising.
Constructed(p) ==
    \/ pc[p] = "done"
    \/ pc[p] = "returned" /\ self[p] # NoObject
    \/ pc[p] = "raised" /\ err[p]["in"] = "bus_stop_coordinates"

\* The collection the first character of a direction's title selects.
HeadingOf(direction) ==
    LET c == Head(direction.attrib["title"]) IN
    CASE c = "N" -> "north_stops"
      [] c = "S" -> "south_stops"
      [] c = "E" -> "east_stops"
      [] OTHER -> "west_stops"

RECURSIVE Concat(_)
Concat(seqs) == IF seqs = <<>> THEN <<>> ELSE Head(seqs) \o Concat(Tail(seqs))

RECURSIVE Repeat(_, _)
Repeat(seq, n) == IF n = 0 THEN <<>> ELSE seq \o Repeat(seq, n - 1)

\* The stop elements of the first r route elements of a feed, in feed order.
StopsUpTo(root, r) ==
    Concat([i \in 1..r |-> FindAll(FindAll(root, "route")[i], "stop")])

FeedStops(root) == StopsUpTo(root, Len(FindAll(root, "route")))

\* The direction elements of a feed as <<route index, direction index>>, in
\* feed order.
DirectionPositions(root) ==
    Concat([r \in 1..Len(FindAll(root, "route")) |->
              [d \in 1..Len(FindAll(FindAll(root, "route")[r], "direction")) |-> <<r, d>>]])

DirectionAt(root, pos) ==
    FindAll(FindAll(root, "route")[pos[1]], "direction")[pos[2]]

\* The positions of the directions classified to the heading attribute a.
PositionsOf(root, a) ==
    SelectSeq(DirectionPositions(root), LAMBDA pos : HeadingOf(DirectionAt(root, pos)) = a)

\* The stops of bus_stops that exist while the directions of route r are
\* grouped.
StopsSeenAt(root, bus_stops, r) == SubSeq(bus_stops, 1, Len(StopsUpTo(root, r)))

\* What the references of the direction at pos select by their own tags: for
\* each reference in order, the stops seen whose tag is the reference's.
SelectedByReferences(root, bus_stops, pos) ==
    LET refs == FindAll(DirectionAt(root, pos), "stop")
        seen == StopsSeenAt(root, bus_stops, pos[1])
    IN Concat([i \in 1..Len(refs) |->
                 SelectSeq(seen, LAMBDA b : b.tag = Get(refs[i], "tag"))])

\* What the loops append for the direction at pos: once per reference, the
\* stops seen whose tag is that of the last stop element read so far.
AppendedFor(root, bus_stops, pos) ==
    LET refs == FindAll(DirectionAt(root, pos), "stop")
        seen == StopsSeenAt(root, bus_stops, pos[1])
    IN IF seen = <<>> THEN <<>>
       ELSE Repeat(SelectSeq(seen, LAMBDA b : b.tag = seen[Len(seen)].tag), Len(refs))

Last(seq) == seq[Len(seq)]

(***************************************************************************)
(* Claims about one construction (Spec).                                   *)
(***************************************************************************)
\* C1: after construction, the collection of each heading holds exactly the
\* stops of bus_stops whose tag equals the tag of a stop reference nested in
\* the (last) direction element of that heading, one per match and in
\* reference order.
C1_StopsMatchReferenceTags ==
    Constructed(1) =>
        \A a \in HeadingAttrs \cap DOMAIN self[1] :
            self[1][a] = SelectedByReferences(doc[1][1], self[1].bus_stops,
                                              Last(PositionsOf(doc[1][1], a)))

\* C2: after construction of a feed with N stop elements under its route
\* elements, bus_stops has N entries, the i-th built from the i-th stop
\* element in feed order: its stopId, title and tag, and the route's display
\* name (the title of the first top-level child) as its route.
C2_BusStopsInFeedOrder ==
    Constructed(1) =>
        LET es == FeedStops(doc[1][1])
            bs == self[1].bus_stops
        IN /\ Len(bs) = Len(es)
           /\ \A i \in 1..Len(es) :
                /\ bs[i].id = Get(es[i], "stopId")
                /\ bs[i].intersection = Get(es[i], "title")
                /\ bs[i].tag = Get(es[i], "tag")
                /\ bs[i].route = doc[1][1].children[1].attrib["title"]

\* C2 witness: a constructed route whose stops come from two route elements
\* and are not all alike.
C2_Witness ==
    /\ Constructed(1)
    /\ Len(Routes(1)) = 2
    /\ \A r \in 1..2 : FindAll(Routes(1)[r], "stop") # <<>>
    /\ self[1].bus_stops[1].tag # Last(self[1].bus_stops).tag

\* C3: when the first top-level child of the feed has no title, the
\* construction fails with NoRouteError (whose message would carry the route
\* number), and with no other kind of error.
C3_MissingTitleRaisesNoRouteError ==
    ( /\ pc[1] = "raised"
      /\ doc[1] # <<>>
      /\ doc[1][1].children # <<>>
      /\ "title" \notin DOMAIN doc[1][1].children[1].attrib )
    => err[1].type = "NoRouteError"

\* C4: whenever a heading's collection is set or grows, a direction element
\* is being grouped and the collection is the one the first character of its
\* title selects: N north_stops, S south_stops, E east_stops, every other
\* character west_stops; and entering a direction sets that collection.
C4_TitleSelectsCollection ==
    [][ /\ \A a \in HeadingAttrs :
             ( \/ HasAttr(self[1], a) # HasAttr(self'[1], a)
               \/ HasAttr(self[1], a) /\ self[1][a] # self'[1][a] )
             => /\ pc[1] \in {"directions", "bus_stops"}
                /\ a = HeadingOf(CurDirection(1))
        /\ (pc[1] = "directions" /\ pc'[1] = "tags")
             => HasAttr(self'[1], HeadingOf(CurDirection(1))) ]_vars

\* C4 witness: a stop has been appended to west_stops for a direction titled
\* "Unknown".
C4_Witness ==
    /\ pc[1] = "bus_stops"
    /\ CurDirection(1).attrib["title"] = Unknown
    /\ HasAttr(self[1], "west_stops")
    /\ self[1]["west_stops"] # <<>>

\* C5: at every point during and after construction, every stop held in a
\* heading's collection is an element of bus_stops, the same object.
C5_NoOrphanedStops ==
    \A a \in HeadingAttrs \cap DOMAIN self[1] :
        \A i \in 1..Len(self[1][a]) :
            \E j \in 1..Len(self[1].bus_stops) : self[1].bus_stops[j] = self[1][a][i]

\* C5 witness: in the middle of the grouping, a heading's collection holds a
\* stop.
C5_Witness ==
    /\ pc[1] = "bus_stops"
    /\ \E a \in HeadingAttrs \cap DOMAIN self[1] : self[1][a] # <<>>

\* C6: after construction, a heading with a direction element in the feed
\* has a list, and a heading with none has its attribute set to None.
C6_MissingHeadingIsNone ==
    Constructed(1) =>
        \A a \in HeadingAttrs :
            IF PositionsOf(doc[1][1], a) # <<>>
            THEN HasAttr(self[1], a)
            ELSE HasAttr(self[1], a) /\ self[1][a] = None

\* C9: bus_stop_coordinates() on a constructed route returns the coordinates
\* of the stops of bus_stops, in order, and does not raise.
C9_CoordinatesReturned ==
    (Constructed(1) /\ pc[1] # "done") =>
        /\ pc[1] = "returned"
        /\ ret[1] = << [i \in 1..Len(self[1].bus_stops) |->
                         self[1].bus_stops[i].coordinates] >>

\* C10: after construction, the collection of a heading holds what was
\* appended for the last direction element of that heading, and nothing of
\* the earlier direction elements of the same heading.
C10_LastDirectionOnly ==
    Constructed(1) =>
        \A a \in HeadingAttrs \cap DOMAIN self[1] :
            self[1][a] = AppendedFor(doc[1][1], self[1].bus_stops,
                                     Last(PositionsOf(doc[1][1], a)))

\* C10 witness: a constructed route with two direction elements of one
\* heading, the earlier of which had a stop appended.
C10_Witness ==
    /\ Constructed(1)
    /\ \E a \in HeadingAttrs :
         LET ps == PositionsOf(doc[1][1], a) IN
         /\ Len(ps) >= 2
         /\ AppendedFor(doc[1][1], self[1].bus_stops, ps[1]) # <<>>

(***************************************************************************)
(* Claims about interleaved callers (SpecCallers).                         *)
(***************************************************************************)
\* C7: a GMapsRoute call that returns, returns (distance, duration), distance
\* first, both read from the response this call fetched, whatever the other
\* callers do in between.
C7_ReturnsOwnResponse ==
    \A p \in Procs :
        (pc[p] = "returned" /\ xml[p] # <<>>) =>
            LET distance == RowText(xml[p][1], 2)
                duration == RowText(xml[p][1], 1)
            IN /\ distance.ok
               /\ duration.ok
               /\ ret[p] = << <<distance.text, duration.text>> >>

\* The caller p is constructing a BusRoute, and no other caller constructs
\* one for the same route number.
AloneOnRoute(p) ==
    /\ self[p] # NoObject
    /\ \A q \in Procs \ {p} : self[q] # NoObject => route_no[q] # route_no[p]

\* C8: constructions for different route numbers use different file paths,
\* and each parses exactly the bytes it fetched: the file it is about to
\* parse holds them, the document it parsed is them, and its parse never
\* finds the file emptied by another caller.
C8_DistinctRoutesDistinctFiles ==
    \A p \in Procs :
        AloneOnRoute(p) =>
            /\ \A q \in Procs \ {p} :
                 self[q] # NoObject => FileName(self[q].number) # FileName(self[p].number)
            /\ pc[p] = "parse" => files[FileName(self[p].number)] = data[p]
            /\ doc[p] # <<>> => doc[p] = data[p]
            /\ ~(pc[p] = "raised" /\ err[p].type = "ParseError")

\* C8 witness: two constructions for different route numbers that fetched
\* different documents, one having written its file after the other and
\* before the other parsed, and both now past their parse.
C8_Witness ==
    /\ \A p \in Procs : AloneOnRoute(p) /\ doc[p] # <<>>
    /\ data[1] # data[2]
    /\ files[FileName(self[1].number)] = data[1]
    /\ files[FileName(self[2].number)] = data[2]

====
